---- MODULE Spec2Model ----
(***************************************************************************)
(* A model of gprepo (src/src/main.rs): the repository walker that writes  *)
(* every selected text file of a git working tree, framed by @@@@path@@@@  *)
(* markers, to one output stream.                                          *)
(*                                                                         *)
(* Text is modelled as sequences of one-character strings, so that the     *)
(* string functions of the program (is_child_of, the glob matcher,         *)
(* str::lines, str::replace, str::trim_start) are computed character by    *)
(* character.                                                              *)
(*                                                                         *)
(* Four specifications share the module:                                   *)
(*   Spec       the run of main (lines 74-253)                             *)
(*   SpecChild  is_child_of applied to bounded strings (lines 68-72)       *)
(*   SpecNorm   process_file_contents applied to bounded texts (33-66)     *)
(*   SpecBin    the read loop of is_binary (lines 12-31)                   *)
(***************************************************************************)
EXTENDS Integers, Sequences, FiniteSets, TLC

VARIABLES
    \* ---- main ----
    pc,                  \* position of main
    cfg,                 \* the parsed command line (matches)
    process_start_time,  \* SystemTime::now() of line 124
    outMtime,            \* modification time of the output file once created
    idx,                 \* number of WalkDir entries already consumed
    cur,                 \* what the environment answered for the entry in progress
    last,                \* the entry consumed last, and the stage that ended it
    passes,              \* history: paths of the entries that met every condition
    written,             \* lines handed to the BufWriter so far
    flushed,             \* how many of them have reached the destination
    exit,                \* "running", "ok" (main returned Ok) or "err"
    \* ---- is_child_of ----
    child, parent, childRes,
    \* ---- process_file_contents ----
    file_path, content, processed,
    \* ---- is_binary ----
    fileLen, zeroAt, filePos, total_read, binRes

mainVars  == <<pc, cfg, process_start_time, outMtime, idx, cur, last, passes, written, flushed, exit>>
childVars == <<child, parent, childRes>>
normVars  == <<file_path, content, processed>>
binVars   == <<fileLen, zeroAt, filePos, total_read, binRes>>
vars      == <<mainVars, childVars, normVars, binVars>>

(***************************************************************************)
(* Bounds of the model.                                                    *)
(***************************************************************************)
\* longest child / parent string drawn for is_child_of
MaxPathLen == 4
\* longest text drawn for process_file_contents
MaxLen == 5
\* modification times range over 0..MaxTime; the process starts at time 1
MaxTime == 2

(***************************************************************************)
(* Strings.                                                                *)
(***************************************************************************)
\* all sequences over alphabet A of length at most n
RECURSIVE StrsUpTo(_, _)
StrsUpTo(A, n) ==
    IF n = 0 THEN { <<>> }
    ELSE LET S == StrsUpTo(A, n - 1)
         IN  S \cup { Append(s, c) : s \in { x \in S : Len(x) = n - 1 }, c \in A }

\* str::starts_with
StartsWith(s, p) == Len(p) <= Len(s) /\ SubSeq(s, 1, Len(p)) = p

\* s[n..] with a 0-based byte offset n, as in &child[parent.len()..]
SliceFrom(s, n) == SubSeq(s, n + 1, Len(s))

\* str::trim_end_matches('/'): every trailing slash is removed
RECURSIVE trim_end_matches_slash(_)
trim_end_matches_slash(s) ==
    IF s # <<>> /\ s[Len(s)] = "/" THEN trim_end_matches_slash(SubSeq(s, 1, Len(s) - 1))
    ELSE s

(***************************************************************************)
(* is_child_of (lines 68-72).                                              *)
(***************************************************************************)
\* a slip that forgets the segment boundary: plain string prefix
is_child_of_prefix_only(c, p) ==
    StartsWith(c, trim_end_matches_slash(p))

is_child_of(c, p) ==
    LET par == trim_end_matches_slash(p)
    IN  /\ StartsWith(c, par)
        /\ (Len(c) = Len(par) \/ StartsWith(SliceFrom(c, Len(par)), <<"/">>))

(***************************************************************************)
(* process_file_contents (lines 33-66).                                    *)
(***************************************************************************)
significant_whitespace_extensions ==
    { <<"p","y">>, <<"n","i","m">>, <<"h","s">>, <<"y","m","l">>, <<"y","a","m","l">>,
      <<"c","o","f","f","e","e">>, <<"j","a","d","e">>, <<"p","u","g">>, <<"s","l","i","m">>,
      <<"s","a","s","s">>, <<"h","a","m","l">> }

no_indentation_extensions ==
    { <<"r","s">>, <<"j","s">>, <<"j","s","x">>, <<"t","s">>, <<"t","s","x">>, <<"c">>,
      <<"c","p","p">>, <<"h">>, <<"h","p","p">>, <<"j","a","v","a">>, <<"g","o">>, <<"c","s">>,
      <<"r","b">>, <<"p","h","p">>, <<"s","w","i","f","t">>, <<"k","t">>, <<"k","t","s">>,
      <<"s","c","a","l","a">>, <<"g","r","o","o","v","y">>, <<"f","s">>, <<"f","s","x">>,
      <<"c","l","j">>, <<"c","l","j","s">>, <<"e","d","n">>, <<"l","i","s","p">>, <<"e","l">>,
      <<"s","c","m">>, <<"s","s">>, <<"r","k","t">>, <<"j","l">>, <<"l","u","a">>,
      <<"t","c","l">>, <<"p","l">>, <<"p","m">>, <<"e","l","m">>, <<"e","r","l">>,
      <<"h","r","l">>, <<"v">>, <<"s","v">>, <<"s","v","h">>, <<"h","t","m","l">>,
      <<"c","s","s">>, <<"s","c","s","s">>, <<"l","e","s","s">>, <<"j","s","o","n">>,
      <<"x","m","l">>, <<"s","q","l">>, <<"m","d">>, <<"t","o","m","l">>, <<"i","n","i">>,
      <<"c","o","n","f">>, <<"c","f","g">>, <<"s","h">>, <<"b","a","s","h">>, <<"z","s","h">>,
      <<"p","s","1">>, <<"a","w","k">>, <<"s","e","d">> }

\* char::is_whitespace restricted to the characters of the model
WhiteSpace == { " ", "\t", "\n", "\f", "\r" }

\* position of the last occurrence of character c in s, 0 when there is none
LastIndexOf(s, c) ==
    LET I == { i \in 1..Len(s) : s[i] = c }
    IN  IF I = {} THEN 0 ELSE CHOOSE i \in I : \A j \in I : j <= i

\* position of the first occurrence of character c in s, 0 when there is none
FirstIndexOf(s, c) ==
    LET I == { i \in 1..Len(s) : s[i] = c }
    IN  IF I = {} THEN 0 ELSE CHOOSE i \in I : \A j \in I : i <= j

\* Path::file_name of a relative slash-separated path
FileName(p) == SliceFrom(p, LastIndexOf(p, "/"))

\* Path::extension, with unwrap_or("") (lines 34-37): the part of the file name
\* after its last dot; none when there is no dot or only a leading one
PathExtension(p) ==
    LET name == FileName(p)
        dot  == LastIndexOf(name, ".")
    IN  IF dot <= 1 THEN <<>> ELSE SliceFrom(name, dot)

\* str::split_inclusive('\n')
RECURSIVE SplitInclusive(_)
SplitInclusive(s) ==
    IF s = <<>> THEN <<>>
    ELSE LET i == FirstIndexOf(s, "\n")
         IN  IF i = 0 THEN <<s>>
             ELSE <<SubSeq(s, 1, i)>> \o SplitInclusive(SliceFrom(s, i))

\* the map of str::lines: a final "\n", and a "\r" right before it, are removed
StripLineEnding(l) ==
    IF l # <<>> /\ l[Len(l)] = "\n"
    THEN LET m == SubSeq(l, 1, Len(l) - 1)
         IN  IF m # <<>> /\ m[Len(m)] = "\r" THEN SubSeq(m, 1, Len(m) - 1) ELSE m
    ELSE l

\* str::lines (line 51)
lines(s) ==
    LET pieces == SplitInclusive(s)
    IN  [i \in 1..Len(pieces) |-> StripLineEnding(pieces[i])]

FourSpaces == <<" ", " ", " ", " ">>

\* line.replace("    ", "\t") (line 53): leftmost matches, not overlapping
RECURSIVE replace_four_spaces(_)
replace_four_spaces(s) ==
    IF s = <<>> THEN <<>>
    ELSE IF StartsWith(s, FourSpaces) THEN <<"\t">> \o replace_four_spaces(SliceFrom(s, 4))
    ELSE <<s[1]>> \o replace_four_spaces(Tail(s))

\* str::trim_start (line 55): every leading whitespace character is removed
RECURSIVE trim_start(_)
trim_start(s) ==
    IF s # <<>> /\ s[1] \in WhiteSpace THEN trim_start(Tail(s)) ELSE s

\* the per-line choice of lines 52-58
processed_line(ext, line) ==
    IF ext \in significant_whitespace_extensions THEN replace_four_spaces(line)
    ELSE IF ext \in no_indentation_extensions THEN trim_start(line)
    ELSE line

\* a slip that forgets the test of line 60, and keeps the empty lines
RECURSIVE process_lines_keep_empty(_, _, _)
process_lines_keep_empty(ext, ls, acc) ==
    IF ls = <<>> THEN acc
    ELSE process_lines_keep_empty(ext, Tail(ls),
                                  (acc \o processed_line(ext, Head(ls))) \o <<"\n">>)

\* the loop of lines 51-64 over the lines ls, from the accumulated text acc
RECURSIVE process_lines(_, _, _)
process_lines(ext, ls, acc) ==
    IF ls = <<>> THEN acc
    ELSE LET pl == processed_line(ext, Head(ls))
         IN  process_lines(ext, Tail(ls),
                           IF pl # <<>> THEN (acc \o pl) \o <<"\n">> ELSE acc)

process_file_contents(path, text) ==
    process_lines(PathExtension(path), lines(text), <<>>)

(***************************************************************************)
(* is_binary (lines 12-31).  A file is its length and the offsets of its   *)
(* zero bytes; a read returns a chunk of the bytes that follow the ones    *)
(* already returned.                                                       *)
(***************************************************************************)
\* let mut buffer = [0; 1024] (line 13), and the limit of line 26
BufferLen == 1024

FileLens    == { 0, 1, 1000, 1024, 1025, 2000, 3000 }
ZeroOffsets == { 0, 999, 1023, 1024, 1500, 2047, 2048 }

\* what one reader.read(&mut buffer) may return with `left` bytes before the end
\* of the file: 0 only at the end, otherwise any positive count up to the
\* length of the buffer (a short read returns less than is available)
ReadSizes(left) ==
    IF left = 0 THEN { 0 }
    ELSE { n \in { 500, 1000, BufferLen, left } : n <= left /\ n <= BufferLen }

\* buffer.iter().take(read).any(|&byte| byte == 0) (line 22) for the chunk of
\* `read` bytes that starts at file offset `from`
ChunkHasZero(from, read) == \E z \in zeroAt : from <= z /\ z < from + read

\* the read returns 0: break, Ok(false) (lines 19-21, 30)
BinReadEof ==
    /\ binRes = "reading"
    /\ 0 \in ReadSizes(fileLen - filePos)
    /\ binRes' = "text"
    /\ UNCHANGED <<fileLen, zeroAt, filePos, total_read, mainVars, childVars, normVars>>

\* the chunk holds a zero byte: return Ok(true) (lines 22-24)
BinReadFindsZero ==
    /\ binRes = "reading"
    /\ \E n \in ReadSizes(fileLen - filePos) :
          /\ n > 0
          /\ ChunkHasZero(filePos, n)
          /\ filePos' = filePos + n
    /\ binRes' = "binary"
    /\ UNCHANGED <<fileLen, zeroAt, total_read, mainVars, childVars, normVars>>

\* no zero byte in the chunk: count it, and stop at 1024 bytes (lines 25-28, 30)
BinReadNoZero ==
    /\ binRes = "reading"
    /\ \E n \in ReadSizes(fileLen - filePos) :
          /\ n > 0
          /\ ~ChunkHasZero(filePos, n)
          /\ filePos' = filePos + n
          /\ total_read' = total_read + n
          /\ binRes' = IF total_read + n >= BufferLen THEN "text" ELSE "reading"
    /\ UNCHANGED <<fileLen, zeroAt, mainVars, childVars, normVars>>

\* File::open or a read fails: the error is returned (lines 14, 18)
BinReadFails ==
    /\ binRes = "reading"
    /\ binRes' = "error"
    /\ UNCHANGED <<fileLen, zeroAt, filePos, total_read, mainVars, childVars, normVars>>

(***************************************************************************)
(* Values of the variables a specification does not use.                   *)
(***************************************************************************)
MainIdle ==
    /\ pc = "idle" /\ cfg = <<>> /\ process_start_time = 0 /\ outMtime = 0
    /\ idx = 0 /\ cur = <<>> /\ last = <<>> /\ passes = {} /\ written = <<>> /\ flushed = 0
    /\ exit = "idle"

ChildIdle == child = <<>> /\ parent = <<>> /\ childRes = <<>>

NormIdle == file_path = <<>> /\ content = <<>> /\ processed = <<>>

BinIdle ==
    /\ fileLen = 0 /\ zeroAt = {} /\ filePos = 0 /\ total_read = 0 /\ binRes = "idle"

(***************************************************************************)
(* SpecChild: is_child_of on every pair of bounded strings, and on the     *)
(* paths the documentation gives as examples.                              *)
(***************************************************************************)
ExamplePaths ==
    { <<"s","r","c","/","m","a","i","n",".","r","s">>,
      <<"s","r","c","f","o","o","/","m","a","i","n",".","r","s">>, <<"s","r","c">>,
      <<"s","r","c","/">>, <<"b","u","i","l","d">>,
      <<"b","u","i","l","d","/","o","u","t","p","u","t",".","t","x","t">>,
      <<"b","u","i","l","d","e","r","/","o","u","t","p","u","t",".","t","x","t">>,
      <<"s","r","c","/","/">> }


ChildInputs == StrsUpTo({ "a", "b", "/" }, MaxPathLen) \cup ExamplePaths

InitChild ==
    /\ child \in ChildInputs
    /\ parent \in ChildInputs
    /\ childRes = <<>>
    /\ MainIdle /\ NormIdle /\ BinIdle

CallIsChildOf ==
    /\ childRes = <<>>
    /\ childRes' = << is_child_of(child, parent) >>
    /\ UNCHANGED <<child, parent, mainVars, normVars, binVars>>

NextChild == CallIsChildOf

SpecChild == InitChild /\ [][NextChild]_vars

(***************************************************************************)
(* SpecNorm: process_file_contents on every bounded text, for a file of    *)
(* each extension class.                                                   *)
(***************************************************************************)
NormAlphabet == { " ", "\t", "a", "\f", "\r", "\n" }

\* m.py, m.rs, m.txt, and the dot file .rs, which has no extension
NormPaths == { <<"m",".","p","y">>, <<"m",".","r","s">>, <<"m",".","t","x","t">>,
               <<".","r","s">> }

InitNorm ==
    /\ file_path \in NormPaths
    /\ content \in StrsUpTo(NormAlphabet, MaxLen)
    /\ processed = <<>>
    /\ MainIdle /\ ChildIdle /\ BinIdle

CallProcessFileContents ==
    /\ processed = <<>>
    /\ processed' = << process_file_contents(file_path, content) >>
    /\ UNCHANGED <<file_path, content, mainVars, childVars, binVars>>

NextNorm == CallProcessFileContents

SpecNorm == InitNorm /\ [][NextNorm]_vars

(***************************************************************************)
(* SpecBin: the read loop of is_binary on files of the lengths FileLens    *)
(* with zero bytes at any of the offsets ZeroOffsets.                      *)
(***************************************************************************)
InitBin ==
    /\ fileLen \in FileLens
    /\ zeroAt \in SUBSET { z \in ZeroOffsets : z < fileLen }
    /\ filePos = 0
    /\ total_read = 0
    /\ binRes = "reading"
    /\ MainIdle /\ ChildIdle /\ NormIdle

NextBin == BinReadEof \/ BinReadFindsZero \/ BinReadNoZero \/ BinReadFails

SpecBin == InitBin /\ [][NextBin]_vars

(***************************************************************************)
(* Claims about is_child_of, checked under SpecChild.                      *)
(***************************************************************************)
\* parent without its trailing slashes, found by position: the prefix of p that
\* ends at its last character other than "/"
StrippedParent(p) ==
    LET I == { i \in 1..Len(p) : p[i] # "/" }
    IN  IF I = {} THEN <<>> ELSE SubSeq(p, 1, CHOOSE i \in I : \A j \in I : j <= i)

\* child equals P, or starts with P followed immediately by "/"
DescendantOrEqual(c, p) ==
    LET P == StrippedParent(p)
    IN  c = P \/ StartsWith(c, Append(P, "/"))

\* child continues P with a character other than "/": a string prefix that is
\* not a segment boundary
SharesPrefixOnly(c, p) ==
    LET P == StrippedParent(p)
    IN  StartsWith(c, P) /\ Len(c) > Len(P) /\ c[Len(P) + 1] # "/"

\* C4: is_child_of(child, parent) is true exactly when child equals P or starts
\* with P followed by "/", P being parent without its trailing slashes; a child
\* that only shares P as a string prefix is not matched, and parent written with
\* one more trailing slash gives the same answer.
C4_IsChildOfIsDescendantOrEqual ==
    childRes # <<>> =>
        /\ childRes[1] = DescendantOrEqual(child, parent)
        /\ (SharesPrefixOnly(child, parent) => childRes[1] = FALSE)
        /\ is_child_of(child, Append(parent, "/")) = childRes[1]

\* is_child_of("srcfoo/main.rs", "src") has been computed, and is false
C4_Witness ==
    /\ child = <<"s","r","c","f","o","o","/","m","a","i","n",".","r","s">>
    /\ parent = <<"s","r","c">>
    /\ childRes = << FALSE >>

(***************************************************************************)
(* Claims about process_file_contents, checked under SpecNorm.             *)
(***************************************************************************)
\* the lines of a text, by one scan: ln is the line being read, acc the lines
\* read; "\n" ends a line, a "\r" right before it belongs to the line ending
RECURSIVE RefSplit(_, _, _)
RefSplit(rest, ln, acc) ==
    IF rest = <<>> THEN (IF ln = <<>> THEN acc ELSE Append(acc, ln))
    ELSE IF Head(rest) = "\n"
         THEN RefSplit(Tail(rest), <<>>,
                       Append(acc, IF ln # <<>> /\ ln[Len(ln)] = "\r"
                                   THEN SubSeq(ln, 1, Len(ln) - 1) ELSE ln))
         ELSE RefSplit(Tail(rest), Append(ln, Head(rest)), acc)

Spaces(k) == [i \in 1..k |-> " "]

\* four consecutive spaces become one tab, left to right: k counts the spaces
\* read and not yet written
RECURSIVE RefTabs(_, _)
RefTabs(s, k) ==
    IF s = <<>> THEN Spaces(k)
    ELSE IF Head(s) = " "
         THEN (IF k = 3 THEN <<"\t">> \o RefTabs(Tail(s), 0) ELSE RefTabs(Tail(s), k + 1))
         ELSE (Spaces(k) \o <<Head(s)>>) \o RefTabs(Tail(s), 0)

\* s from its first character that is not in W
RefStrip(s, W) ==
    LET I == { i \in 1..Len(s) : s[i] \notin W }
    IN  IF I = {} THEN <<>> ELSE SubSeq(s, CHOOSE i \in I : \A j \in I : i <= j, Len(s))

RefLine(ext, line, W) ==
    IF ext \in significant_whitespace_extensions THEN RefTabs(line, 0)
    ELSE IF ext \in no_indentation_extensions THEN RefStrip(line, W)
    ELSE line

RECURSIVE RefConcat(_)
RefConcat(ls) ==
    IF ls = <<>> THEN <<>> ELSE (Head(ls) \o <<"\n">>) \o RefConcat(Tail(ls))

\* the reference normalizer, with W the leading characters a no-indentation
\* line loses
RefNormalize(path, text, W) ==
    LET ls == RefSplit(text, <<>>, <<>>)
        tl == [i \in 1..Len(ls) |-> RefLine(PathExtension(path), ls[i], W)]
        NonEmpty(l) == l # <<>>
    IN  RefConcat(SelectSeq(tl, NonEmpty))

\* the lines of a normalized text: the pieces that end at each "\n"
ResultLines(text) ==
    LET pieces == SplitInclusive(text)
    IN  [i \in 1..Len(pieces) |->
            IF pieces[i][Len(pieces[i])] = "\n"
            THEN SubSeq(pieces[i], 1, Len(pieces[i]) - 1) ELSE pieces[i]]

\* no line of the result is empty; a no-indentation result line starts with
\* neither space nor tab; a significant-whitespace result line holds no run of
\* four spaces
ResultShape(path, text) ==
    LET ls  == ResultLines(text)
        ext == PathExtension(path)
    IN  /\ (text # <<>> => text[Len(text)] = "\n")
        /\ \A i \in 1..Len(ls) :
              /\ ls[i] # <<>>
              /\ (ext \in no_indentation_extensions => ls[i][1] \notin { " ", "\t" })
              /\ (ext \in significant_whitespace_extensions =>
                    \A j \in 1..Len(ls[i]) : ~StartsWith(SliceFrom(ls[i], j - 1), FourSpaces))

\* C5 as stated: the result equals the reference in which a no-indentation
\* line loses its leading spaces and tabs only.
C5_NormalizerStripsSpacesAndTabsOnly ==
    processed # <<>> => processed[1] = RefNormalize(file_path, content, { " ", "\t" })

\* C5 as amended: the result equals the reference in which a no-indentation line
\* loses every leading whitespace character (space, tab, form feed, carriage
\* return, ...); the other classes, the dropping of empty lines and the shape of
\* the result are as stated.
C5_NormalizerStripsLeadingWhitespace ==
    processed # <<>> =>
        /\ processed[1] = RefNormalize(file_path, content, WhiteSpace)
        /\ ResultShape(file_path, processed[1])

\* m.rs with a line that starts with a form feed and an indented line: both
\* lose their leading whitespace
C5_Witness ==
    /\ file_path = <<"m",".","r","s">>
    /\ content = <<"\f","a","\n"," ","a">>
    /\ processed = << <<"a","\n","a","\n">> >>

(***************************************************************************)
(* Claims about is_binary, checked under SpecBin.                          *)
(***************************************************************************)
\* a zero byte among the first min(1024, length) bytes
ZeroInFirstBytes == \E z \in zeroAt : z < BufferLen /\ z < fileLen

\* C2: whatever chunks the reads return, the file is classified binary exactly
\* when a zero byte occurs among its first min(1024, length) bytes.
C2_BinaryIffZeroInFirst1024 ==
    binRes \in { "binary", "text" } => (binRes = "binary" <=> ZeroInFirstBytes)

\* the half of C2 that the read loop does keep: a file with a zero byte among
\* its first 1024 bytes is never classified as text
ZeroInFirstBytesIsNeverText == ZeroInFirstBytes => binRes # "text"


(***************************************************************************)
(* main (lines 74-253).                                                    *)
(*                                                                         *)
(* The working tree is fixed; what the environment answers for an entry    *)
(* (the ignore predicate, the metadata, the bytes, the writes) is chosen   *)
(* when the entry is visited.  Times are integers: the process starts at   *)
(* time 1, so a file of time 0 is older than the run, one of time 1 was    *)
(* modified at the very instant the start time was captured.               *)
(***************************************************************************)
\* repo.workdir(): the absolute path every WalkDir entry starts with
RepoRoot == <<"/","r","/">>

\* the relative path of the output file, for the outputs that lie in the tree
OutRel == <<"o","u","t",".","t","x","t">>

\* WalkDir::new(repo_path) (line 181): the entries in the order of one traversal
Tree == <<
    [path |-> <<>>, is_file |-> FALSE],
    [path |-> <<".","g","i","t","i","g","n","o","r","e">>, is_file |-> TRUE],
    [path |-> <<".","g","i","t","h","u","b","/","c","i",".","y","m","l">>, is_file |-> TRUE],
    [path |-> <<"C","H","A","N","G","E","L","O","G",".","m","d">>, is_file |-> TRUE],
    [path |-> <<"C","a","r","g","o",".","l","o","c","k">>, is_file |-> TRUE],
    [path |-> <<"L","I","C","E","N","S","E">>, is_file |-> TRUE],
    [path |-> <<"R","E","A","D","M","E",".","m","d">>, is_file |-> TRUE],
    [path |-> <<"g","p","r","e","p","o">>, is_file |-> TRUE],
    [path |-> <<"c","h","a","n","g","e","l","o","g",".","m","d">>, is_file |-> TRUE],
    [path |-> <<"a",".","t","x","t">>, is_file |-> TRUE],
    [path |-> <<"C","h","a","n","g","e","l","o","g",".","m","d">>, is_file |-> TRUE],
    [path |-> OutRel, is_file |-> TRUE],
    [path |-> <<"s","r","c">>, is_file |-> FALSE],
    [path |-> <<"s","r","c","/","m","a","i","n",".","r","s">>, is_file |-> TRUE],
    [path |-> <<"s","r","c","f","o","o","/","x",".","p","y">>, is_file |-> TRUE] >>

\* the place of the entry with relative path rel in the traversal
IndexOf(rel) == CHOOSE i \in 1..Len(Tree) : Tree[i].path = rel

\* the bytes of the files of the tree
Content(path) ==
    CASE path = <<"a",".","t","x","t">> -> <<"h","e","l","l","o","\n">>
      [] path = <<"s","r","c","/","m","a","i","n",".","r","s">> -> <<" "," ","f","n","\n","\n","}","\n">>
      [] path = <<"s","r","c","f","o","o","/","x",".","p","y">> -> <<" "," "," "," ","x","\n">>
      [] path = <<"C","h","a","n","g","e","l","o","g",".","m","d">> -> <<"v","1","\n">>
      [] OTHER -> <<"o","\n">>

\* the command lines of the model.  output: "stdout" (no -o), "abs" (-o with the
\* absolute path of OutRel, as WalkDir spells it), "rel" (-o with a path to the
\* same file relative to the working directory) or "outside" (a file that is
\* not in the tree).  exclude and include: the values given, <<>> when the
\* option is absent.  preamble: <<>> when absent, else << content of the file >>.
ExcludeChoices == { <<>>, << <<"s","r","c">> >>, << <<"*",".","t","x","t">>, <<"s","r","c","f","o","o","/">> >> }
IncludeChoices == { <<>>, << <<"s","r","c">> >>, << <<"a",".","t","x","t">>, <<"s","r","c","f","o","o","/">> >> }
PreambleChoices == { <<>>, << <<"H","i">> >>, << <<"H","i","\n">> >> }

Configs ==
    [ output : { "stdout", "abs", "rel", "outside" },
      exclude : ExcludeChoices,
      include : IncludeChoices,
      preamble : PreambleChoices ]

\* the string given to -o (line 123)
OutputArg(output) ==
    CASE output = "abs" -> RepoRoot \o OutRel
      [] output = "rel" -> OutRel
      [] OTHER -> <<"/","t","/","o">>

\* entry.path() of the entry with relative path rel
EntryPath(rel) == RepoRoot \o rel

\* the glob matcher of globset for patterns of literals and "*"; "*" matches any
\* run of characters, "/" included, and letters match case-sensitively
RECURSIVE GlobMatch(_, _)
GlobMatch(pat, s) ==
    IF pat = <<>> THEN s = <<>>
    ELSE IF Head(pat) = "*"
         THEN \E k \in 0..Len(s) : GlobMatch(Tail(pat), SliceFrom(s, k))
         ELSE s # <<>> /\ Head(s) = Head(pat) /\ GlobMatch(Tail(pat), Tail(s))

\* the patterns added at lines 154-161
DefaultPatterns == <<
    <<"*","c","h","a","n","g","e","l","o","g","*">>, <<"*","C","H","A","N","G","E","L","O","G","*">>, <<".","g","i","t","h","u","b","*">>, <<".","g","i","t","i","g","n","o","r","e">>,
    <<"g","p","r","e","p","o">>, <<"*","L","I","C","E","N","S","E","*">>, <<"*",".","l","o","c","k">>, <<"*","R","E","A","D","M","E","*">> >>

\* exclude_set (lines 146-163): the user's exclude values, then the defaults
exclude_set(exclude_paths) == exclude_paths \o DefaultPatterns

\* exclude_set.is_match(path_str) (line 212)
exclude_set_is_match(exclude_paths, path_str) ==
    LET set == exclude_set(exclude_paths)
    IN  \E i \in 1..Len(set) : GlobMatch(set[i], path_str)

\* should_exclude (lines 188-196)
should_exclude(exclude_paths, path_str) ==
    \E i \in 1..Len(exclude_paths) : is_child_of(path_str, exclude_paths[i])

\* should_include (lines 198-206); include_paths is <<>> when -i is absent
should_include(include_paths, path_str) ==
    \/ include_paths = <<>>
    \/ \E i \in 1..Len(include_paths) : is_child_of(path_str, include_paths[i])

\* output_path.is_some_and(|op| op.as_path() == file_path) (lines 226-229)
is_output_path(output, path_str) ==
    output # "stdout" /\ OutputArg(output) = EntryPath(path_str)

\* a slip that skips only the files modified after the start
modified_after_start(modified_time) == modified_time > process_start_time

\* modified_time >= process_start_time (line 235)
modified_since_start(modified_time) == modified_time >= process_start_time

\* a slip that captures the start time after the output file is created, so
\* that the file may be older than the start
CreationTimesAnyTime == 0..MaxTime

\* the times File::create (line 166) may give the output file: it runs after
\* the start time was captured (line 124)
CreationTimes == process_start_time..MaxTime

\* what lines 183-229 compute from the entry alone under command line c:
\* whether it is a regular file, and what the prefix filters, the glob set and
\* the comparison with the output path say of its path
PathFacts(c, e) ==
    [ is_file |-> e.is_file,
      filtered |-> should_exclude(c.exclude, e.path) \/ ~should_include(c.include, e.path),
      glob |-> exclude_set_is_match(c.exclude, e.path),
      output |-> is_output_path(c.output, e.path) ]

\* the path facts of every entry of the tree under every command line
PathFactsOf == [c \in Configs |-> [i \in 1..Len(Tree) |-> PathFacts(c, Tree[i])]]

\* the answers of the environment for the entry being processed that the loop
\* has asked for so far; "none" and -1 stand for an answer not asked for
NoAnswers == [ignore |-> "none", mtime |-> -1, bin |-> "none"]

\* a slip that asks the ignore predicate without testing the glob set first
after_path_checks_without_glob(f) ==
    IF ~f.is_file THEN "notfile"
    ELSE IF f.filtered THEN "prefix"
    ELSE "ignore"

\* lines 183-214: what follows the tests on the entry and its path: the entry
\* is skipped ("notfile", "prefix", "glob") or the ignore predicate is asked
after_path_checks(f) ==
    IF ~f.is_file THEN "notfile"
    ELSE IF f.filtered THEN "prefix"
    ELSE IF f.glob THEN "glob"
    ELSE "ignore"

\* lines 216-231: what follows the answer r of repo.status_should_ignore: the
\* error is returned, the entry is skipped ("ignored", "output"), or the
\* metadata is read
after_ignore(f, r) ==
    IF r = "err" THEN "ignore_err"
    ELSE IF r = "yes" THEN "ignored"
    ELSE IF f.output THEN "output"
    ELSE "meta"

\* lines 234-238: what follows the modification time: skip, or is_binary
after_metadata(modified_time) ==
    IF modified_since_start(modified_time) THEN "mtime" ELSE "sniff"

\* lines 240-242: what follows the answer b of is_binary
after_sniff(b) ==
    IF b = "err" THEN "bin_err"
    ELSE IF b = "binary" THEN "binary"
    ELSE "marker"

\* the lines that writeln!(writer, "{}", text) adds to the stream: text, then
\* a newline
StreamLines(text) ==
    LET pieces == SplitInclusive(text \o <<"\n">>)
    IN  [i \in 1..Len(pieces) |-> SubSeq(pieces[i], 1, Len(pieces[i]) - 1)]

\* the fixed sentence of line 177, as one line
DefaultInstruction ==
    << "Below is a repository containing files. Each file begins with @@@@<file-path>@@@@ followed by its content. The repository ends with @@@@END@@@@. After this marker, instructions related to the repository are provided." >>

\* "@@@@{}@@@@" (line 244)
Marker(rel) == (<<"@","@","@","@">> \o rel) \o <<"@","@","@","@">>

\* what line 248 writes for the entry with relative path rel: the normalized
\* content (lines 245-247), with writeln!
ContentLines(rel) == StreamLines(process_file_contents(rel, Content(rel)))

\* the content lines of every entry of the tree
ContentLinesOf == [i \in 1..Len(Tree) |-> ContentLines(Tree[i].path)]

\* "@@@@END@@@@" (line 251)
EndMarker == <<"@","@","@","@","E","N","D","@","@","@","@">>

(***************************************************************************)
(* History: the entries that meet every condition of selection, judged on  *)
(* what the file is and what the environment answers, not on what the loop *)
(* did.                                                                    *)
(***************************************************************************)
\* the entry is the file the output is written to, however -o spells it
IsOutputFile(output, rel) == output \in { "abs", "rel" } /\ rel = OutRel

\* a regular file, matched by no exclude prefix, matched by an include prefix
\* when there is one, matched by no pattern of the exclude glob set, not
\* ignored, not the output file, last modified strictly before the start, and
\* classified as text
SelectedByPath(c, e) ==
    /\ e.is_file
    /\ ~\E i \in 1..Len(c.exclude) : DescendantOrEqual(e.path, c.exclude[i])
    /\ (c.include = <<>>
        \/ \E i \in 1..Len(c.include) : DescendantOrEqual(e.path, c.include[i]))
    /\ ~exclude_set_is_match(c.exclude, e.path)
    /\ ~IsOutputFile(c.output, e.path)

SelectedByPathOf == [c \in Configs |-> [i \in 1..Len(Tree) |-> SelectedByPath(c, Tree[i])]]

\* the entry meets every condition, given all the answers
MeetsEveryCondition(selected, answers) ==
    /\ selected
    /\ answers.ignore = "no"
    /\ answers.mtime >= 0 /\ answers.mtime < process_start_time
    /\ answers.bin = "text"

\* the answers given so far rule out no condition: with the right answers to
\* the questions not asked, the entry meets every condition
MayMeetEveryCondition(selected, answers) ==
    /\ selected
    /\ answers.ignore \in { "no", "none" }
    /\ answers.mtime < process_start_time
    /\ answers.bin \in { "text", "none" }

(***************************************************************************)
(* The actions of main.                                                    *)
(***************************************************************************)
NoEntry == [path |-> <<>>, stage |-> "none"]

Init ==
    /\ pc = "start"
    /\ cfg \in Configs
    /\ process_start_time = 0
    /\ outMtime = 0
    /\ idx = 0
    /\ cur = NoAnswers
    /\ last = NoEntry
    /\ passes = {}
    /\ written = <<>>
    /\ flushed = 0
    /\ exit = "running"
    /\ ChildIdle /\ NormIdle /\ BinIdle

otherVars == <<childVars, normVars, binVars>>

\* a write into the BufWriter either stays in its buffer or makes the buffer
\* reach the destination: the lines that have reached it after stream w
FlushChoices(w) == { flushed, Len(w) }

\* lines 123-144: the start time is captured, the repository is found
DiscoverRepository ==
    /\ pc = "start"
    /\ process_start_time' = 1
    /\ pc' = "create"
    /\ UNCHANGED <<cfg, outMtime, idx, cur, last, passes, written, flushed, exit, otherVars>>

\* lines 126-144: Repository::discover, workdir or statuses fails; main returns
\* the error before any writer exists
DiscoverFails ==
    /\ pc = "start"
    /\ process_start_time' = 1
    /\ pc' = "done"
    /\ exit' = "err"
    /\ last' = [path |-> <<>>, stage |-> "discover_err"]
    /\ UNCHANGED <<cfg, outMtime, idx, cur, passes, written, flushed, otherVars>>

\* lines 165-168: the writer is made; File::create creates or truncates the
\* output file, which gets the time of the call
CreateWriter ==
    /\ pc = "create"
    /\ IF cfg.output = "stdout" THEN outMtime' = outMtime
       ELSE outMtime' \in CreationTimes
    /\ pc' = "preamble"
    /\ UNCHANGED <<cfg, process_start_time, idx, cur, last, passes, written, flushed, exit,
                   otherVars>>

\* line 166: File::create fails
CreateWriterFails ==
    /\ pc = "create"
    /\ cfg.output # "stdout"
    /\ pc' = "done"
    /\ exit' = "err"
    /\ last' = [path |-> <<>>, stage |-> "create_err"]
    /\ UNCHANGED <<cfg, process_start_time, outMtime, idx, cur, passes, written, flushed,
                   otherVars>>

\* lines 170-179: the preamble file's content, or the default sentence
WritePreamble ==
    /\ pc = "preamble"
    /\ written' = written \o StreamLines(IF cfg.preamble = <<>> THEN DefaultInstruction
                                         ELSE cfg.preamble[1])
    /\ flushed' \in FlushChoices(written')
    /\ pc' = "walk"
    /\ UNCHANGED <<cfg, process_start_time, outMtime, idx, cur, last, passes, exit,
                   otherVars>>

\* the error of a `?` inside main: main returns it, at stage `stage`
AbortRun(stage) ==
    /\ pc' = "drop"
    /\ exit' = "err"
    /\ last' = [path |-> IF pc = "preamble" \/ idx = Len(Tree) THEN <<>>
                         ELSE Tree[idx + 1].path,
                stage |-> stage]
    /\ UNCHANGED <<cfg, process_start_time, outMtime, idx, cur, passes, otherVars>>

\* lines 172-178: the preamble file cannot be read, or the write fails
PreambleFails ==
    /\ pc = "preamble"
    /\ AbortRun("preamble_err")
    /\ UNCHANGED <<written, flushed>>

\* `continue`, or the end of the loop body for an entry that is no file: the
\* entry in progress is left at stage `stage`, with the answers `answers`
SkipEntry(stage, answers) ==
    /\ idx' = idx + 1
    /\ pc' = "walk"
    /\ cur' = NoAnswers
    /\ last' = [path |-> Tree[idx + 1].path, stage |-> stage]
    /\ passes' = IF MayMeetEveryCondition(SelectedByPathOf[cfg][idx + 1], answers)
                 THEN passes \cup { Tree[idx + 1].path } ELSE passes
    /\ UNCHANGED <<cfg, process_start_time, outMtime, written, flushed, exit, otherVars>>

\* the loop body goes on to its next stage
Advance(stage, answers) ==
    /\ pc' = stage
    /\ cur' = answers
    /\ UNCHANGED <<cfg, process_start_time, outMtime, idx, last, passes, written, flushed,
                   exit, otherVars>>

\* line 182: WalkDir fails to produce the next entry
EntryFails ==
    /\ pc = "walk" /\ idx < Len(Tree)
    /\ AbortRun("walk_err")
    /\ UNCHANGED <<written, flushed>>

\* lines 183-214: the entry is no regular file, or its path is filtered out
PathSkips ==
    /\ pc = "walk" /\ idx < Len(Tree)
    /\ after_path_checks(PathFactsOf[cfg][idx + 1]) # "ignore"
    /\ SkipEntry(after_path_checks(PathFactsOf[cfg][idx + 1]), cur)

\* lines 183-214: the entry passes the tests on its path
PathPasses ==
    /\ pc = "walk" /\ idx < Len(Tree)
    /\ after_path_checks(PathFactsOf[cfg][idx + 1]) = "ignore"
    /\ Advance("ignore", cur)

\* lines 216-221: the ignore predicate fails
IgnoreFails ==
    /\ pc = "ignore"
    /\ after_ignore(PathFactsOf[cfg][idx + 1], "err") = "ignore_err"
    /\ AbortRun("ignore_err")
    /\ UNCHANGED <<written, flushed>>

\* lines 222-231: the entry is ignored, or is the output path
IgnoreSkips ==
    /\ pc = "ignore"
    /\ \E r \in { "no", "yes" } :
          LET nxt == after_ignore(PathFactsOf[cfg][idx + 1], r)
          IN  /\ nxt # "meta"
              /\ SkipEntry(nxt, [cur EXCEPT !.ignore = r])

\* lines 222-231: the entry is not ignored and is not the output path
IgnorePasses ==
    /\ pc = "ignore"
    /\ \E r \in { "no", "yes" } :
          /\ after_ignore(PathFactsOf[cfg][idx + 1], r) = "meta"
          /\ Advance("meta", [cur EXCEPT !.ignore = r])

\* the modification times the file system may report for the entry in
\* progress: the output file, once created, is never older than its creation
ModificationTimes ==
    IF IsOutputFile(cfg.output, Tree[idx + 1].path) THEN outMtime..MaxTime ELSE 0..MaxTime

\* line 233: file_path.metadata() fails
MetadataFails ==
    /\ pc = "meta"
    /\ AbortRun("meta_err")
    /\ UNCHANGED <<written, flushed>>

\* lines 234-238: the file was modified at or after the start
MtimeSkips ==
    /\ pc = "meta"
    /\ \E m \in ModificationTimes :
          /\ after_metadata(m) = "mtime"
          /\ SkipEntry("mtime", [cur EXCEPT !.mtime = m])

\* lines 234-238: the file is older than the start
MtimePasses ==
    /\ pc = "meta"
    /\ \E m \in ModificationTimes :
          /\ after_metadata(m) = "sniff"
          /\ Advance("sniff", [cur EXCEPT !.mtime = m])

\* line 240: is_binary returns an error
SniffFails ==
    /\ pc = "sniff"
    /\ after_sniff("err") = "bin_err"
    /\ AbortRun("bin_err")
    /\ UNCHANGED <<written, flushed>>

\* lines 240-242: is_binary answers true
SniffSkips ==
    /\ pc = "sniff"
    /\ \E b \in { "text", "binary" } :
          /\ after_sniff(b) = "binary"
          /\ SkipEntry("binary", [cur EXCEPT !.bin = b])

\* lines 240-242: is_binary answers false
SniffPasses ==
    /\ pc = "sniff"
    /\ \E b \in { "text", "binary" } :
          /\ after_sniff(b) = "marker"
          /\ Advance("marker", [cur EXCEPT !.bin = b])

\* line 244: the start marker is written
WriteMarker ==
    /\ pc = "marker"
    /\ written' = Append(written, Marker(Tree[idx + 1].path))
    /\ flushed' \in FlushChoices(written')
    /\ pc' = "read"
    /\ UNCHANGED <<cfg, process_start_time, outMtime, idx, cur, last, passes, exit,
                   otherVars>>

\* line 244: the write of the start marker fails
WriteMarkerFails ==
    /\ pc = "marker"
    /\ AbortRun("marker_err")
    /\ UNCHANGED <<written, flushed>>

\* lines 245-247: the content is read and normalized
ReadContent ==
    /\ pc = "read"
    /\ pc' = "content"
    /\ UNCHANGED <<cfg, process_start_time, outMtime, idx, cur, last, passes, written,
                   flushed, exit, otherVars>>

\* line 246: the file cannot be opened or read, or is not valid UTF-8
ReadContentFails ==
    /\ pc = "read"
    /\ AbortRun("read_err")
    /\ UNCHANGED <<written, flushed>>

\* line 248: the normalized content is written with writeln!, which ends the
\* iteration for an emitted entry
WriteContent ==
    /\ pc = "content"
    /\ written' = written \o ContentLinesOf[idx + 1]
    /\ flushed' \in FlushChoices(written')
    /\ idx' = idx + 1
    /\ pc' = "walk"
    /\ cur' = NoAnswers
    /\ last' = [path |-> Tree[idx + 1].path, stage |-> "emit"]
    /\ passes' = IF MeetsEveryCondition(SelectedByPathOf[cfg][idx + 1], cur)
                 THEN passes \cup { Tree[idx + 1].path } ELSE passes
    /\ UNCHANGED <<cfg, process_start_time, outMtime, exit, otherVars>>

\* line 248: the write of the content fails
WriteContentFails ==
    /\ pc = "content"
    /\ AbortRun("content_err")
    /\ UNCHANGED <<written, flushed>>

\* lines 251-252: the end marker, and Ok(())
WriteEnd ==
    /\ pc = "walk"
    /\ idx = Len(Tree)
    /\ written' = Append(written, EndMarker)
    /\ flushed' \in FlushChoices(written')
    /\ pc' = "drop"
    /\ exit' = "ok"
    /\ UNCHANGED <<cfg, process_start_time, outMtime, idx, cur, last, passes, otherVars>>

\* line 251: the write of the end marker fails
WriteEndFails ==
    /\ pc = "walk"
    /\ idx = Len(Tree)
    /\ AbortRun("end_err")
    /\ UNCHANGED <<written, flushed>>

\* main returns and `writer` goes out of scope (line 253): the BufWriter writes
\* what its buffer still holds
DropWriter ==
    /\ pc = "drop"
    /\ flushed' = Len(written)
    /\ pc' = "done"
    /\ UNCHANGED <<cfg, process_start_time, outMtime, idx, cur, last, passes, written, exit,
                   otherVars>>

\* the same, but the destination refuses the bytes: the drop of a BufWriter
\* ignores the error, and what main returns is not changed
DropWriterFlushFails ==
    /\ pc = "drop"
    /\ flushed < Len(written)
    /\ pc' = "done"
    /\ UNCHANGED <<cfg, process_start_time, outMtime, idx, cur, last, passes, written,
                   flushed, exit, otherVars>>

Next ==
    \/ DiscoverRepository \/ DiscoverFails
    \/ CreateWriter \/ CreateWriterFails
    \/ WritePreamble \/ PreambleFails
    \/ EntryFails \/ PathSkips \/ PathPasses
    \/ IgnoreFails \/ IgnoreSkips \/ IgnorePasses
    \/ MetadataFails \/ MtimeSkips \/ MtimePasses
    \/ SniffFails \/ SniffSkips \/ SniffPasses
    \/ WriteMarker \/ WriteMarkerFails
    \/ ReadContent \/ ReadContentFails
    \/ WriteContent \/ WriteContentFails
    \/ WriteEnd \/ WriteEndFails
    \/ DropWriter \/ DropWriterFlushFails

Spec == Init /\ [][Next]_vars

\* what has reached the destination
Output == SubSeq(written, 1, flushed)

(***************************************************************************)
(* Claims about main, checked under Spec.                                  *)
(***************************************************************************)
\* the lines of the normalized content of every entry of the tree
NormalizedLinesOf ==
    [i \in 1..Len(Tree) |->
        ResultLines(process_file_contents(Tree[i].path, Content(Tree[i].path)))]

\* the places of stream w where the start marker of entry i stands
MarkersOf(w, i) == { j \in 1..Len(w) : w[j] = Marker(Tree[i].path) }

\* the places of stream w where a frame of entry i stands: its start marker,
\* followed by the lines of its normalized content
FramesOf(w, i) ==
    { j \in MarkersOf(w, i) :
        LET n == Len(NormalizedLinesOf[i])
        IN  j + n <= Len(w) /\ SubSeq(w, j + 1, j + n) = NormalizedLinesOf[i] }

\* the run ended with lines the destination never got
LostOutput == pc = "done" /\ flushed < Len(written)

SkipStages == { "notfile", "prefix", "glob", "ignored", "output", "mtime", "binary" }

\* an entry passes the stages that look at its path only
PassesPathStages(c, e) ==
    /\ e.is_file
    /\ ~\E i \in 1..Len(c.exclude) : DescendantOrEqual(e.path, c.exclude[i])
    /\ (c.include = <<>>
        \/ \E i \in 1..Len(c.include) : DescendantOrEqual(e.path, c.include[i]))
    /\ ~exclude_set_is_match(c.exclude, e.path)

PassesPathStagesOf ==
    [c \in Configs |-> [i \in 1..Len(Tree) |-> PassesPathStages(c, Tree[i])]]

\* C9: the ignore predicate is asked for an entry only if the prefix and glob
\* stages did not skip it; metadata and bytes are read only after the predicate
\* answered not-ignored; an error of the predicate, of the metadata, of the
\* sniff or of the read ends the run only at an entry that no earlier stage
\* skips; and an entry that a stage skips never ends the run.
C9_StagesInOrder ==
    /\ (pc \in { "ignore", "meta", "sniff", "marker", "read", "content" }
          => PassesPathStagesOf[cfg][idx + 1])
    /\ (pc \in { "meta", "sniff", "marker", "read", "content" } => cur.ignore = "no")
    /\ (last.stage \in { "ignore_err", "meta_err", "bin_err", "read_err" }
          => PassesPathStagesOf[cfg][idx + 1])
    /\ (last.stage \in { "meta_err", "bin_err", "read_err" } => cur.ignore = "no")
    /\ (last.stage \in SkipStages => exit # "err")

\* the ignore predicate failed for a.txt and ended the run, after the entries
\* before it, which the glob set skips, had not
C9_Witness ==
    /\ exit = "err"
    /\ last = [path |-> <<"a",".","t","x","t">>, stage |-> "ignore_err"]
    /\ idx = IndexOf(<<"a",".","t","x","t">>) - 1
    /\ PathFactsOf[cfg][idx].glob

\* the content of the preamble file, as lines
PreambleLines == IF cfg.preamble = <<>> THEN <<>> ELSE lines(cfg.preamble[1])

\* the frames of the entries from the i-th on that were kept, in traversal
\* order: start marker, then normalized content
RECURSIVE ExpectedFrames(_)
ExpectedFrames(i) ==
    IF i > Len(Tree) THEN <<>>
    ELSE (IF Tree[i].path \in passes
          THEN Append(<<>>, Marker(Tree[i].path)) \o NormalizedLinesOf[i]
          ELSE <<>>) \o ExpectedFrames(i + 1)

\* C6: in a successful run with no filters and a preamble file, the output is
\* exactly the content of the preamble, the frames of the kept files in
\* traversal order, and the end marker, with no other line.
C6_OutputIsPreambleFramesEnd ==
    (/\ pc = "done" /\ exit = "ok" /\ flushed = Len(written)
     /\ cfg.preamble # <<>> /\ cfg.exclude = <<>> /\ cfg.include = <<>>)
        => Output = (PreambleLines \o ExpectedFrames(1)) \o Append(<<>>, EndMarker)

\* the lines the run starts with: the preamble's, or the default sentence
FirstLines ==
    StreamLines(IF cfg.preamble = <<>> THEN DefaultInstruction ELSE cfg.preamble[1])

\* the order of C7, on a stream w: the preamble comes first, and the end marker
\* occurs at most once and after every other line
StreamInOrder(w) ==
    /\ (w # <<>> => StartsWith(w, FirstLines))
    /\ \A j \in 1..Len(w) : w[j] = EndMarker => j = Len(w)

\* C7: the preamble is written before any frame, every frame before the end
\* marker, the end marker at most once; the run exits with success exactly when
\* the end marker is the last line of the output; a run that aborts has no end
\* marker.
C7_OrderAndExitStatus ==
    /\ StreamInOrder(written)
    /\ (pc = "done" =>
          (exit = "ok" <=> (Output # <<>> /\ Output[Len(Output)] = EndMarker)))
    /\ (exit = "err" => \A j \in 1..Len(written) : written[j] # EndMarker)

\* what of C7 holds of the lines handed to the writer, whether or not they
\* reach the destination
WriterLevelOrderAndExit ==
    /\ StreamInOrder(written)
    /\ (pc \in { "drop", "done" } =>
          (exit = "ok" <=> (written # <<>> /\ written[Len(written)] = EndMarker)))
    /\ (exit = "err" => \A j \in 1..Len(written) : written[j] # EndMarker)

\* once main has returned an error, nothing more is handed to the writer
NoWriteAfterFailure == [][exit = "err" => written' = written]_vars

ToLower(ch) ==
    CASE ch = "C" -> "c" [] ch = "H" -> "h" [] ch = "A" -> "a" [] ch = "N" -> "n"
      [] ch = "G" -> "g" [] ch = "E" -> "e" [] ch = "L" -> "l" [] ch = "O" -> "o"
      [] OTHER -> ch

Contains(s, sub) == \E k \in 0..Len(s) : StartsWith(SliceFrom(s, k), sub)

EndsWith(s, suffix) ==
    Len(suffix) <= Len(s) /\ SliceFrom(s, Len(s) - Len(suffix)) = suffix

\* the paths C8 names: a changelog file in any letter case, a .github path,
\* .gitignore, gprepo, a LICENSE file, a lock file, a README file
NamedByDefaults(p) ==
    \/ Contains([i \in 1..Len(p) |-> ToLower(p[i])], <<"c","h","a","n","g","e","l","o","g">>)
    \/ StartsWith(p, <<".","g","i","t","h","u","b">>)
    \/ p = <<".","g","i","t","i","g","n","o","r","e">>
    \/ p = <<"g","p","r","e","p","o">>
    \/ Contains(p, <<"L","I","C","E","N","S","E">>)
    \/ EndsWith(p, <<".","l","o","c","k">>)
    \/ Contains(p, <<"R","E","A","D","M","E">>)

NamedByDefaultsInTree == { i \in 1..Len(Tree) : NamedByDefaults(Tree[i].path) }

\* C8: whatever exclude values are given, no file that the defaults name (a
\* changelog file in any letter case among them) gets a start marker.
C8_DefaultsNeverEmitted ==
    \A i \in NamedByDefaultsInTree : MarkersOf(written, i) = {}

\* the same for the letter cases the patterns spell out: all lowercase or all
\* uppercase "changelog"
SpelledDefaultsNeverEmitted ==
    \A i \in NamedByDefaultsInTree :
        Tree[i].path # <<"C","h","a","n","g","e","l","o","g",".","m","d">> => MarkersOf(written, i) = {}

\* C10: in the output of a run that has ended, aborted or not, every start
\* marker is followed by the complete normalized content of its file.  (A run
\* that the write of the content itself ended is left aside.)
C10_MarkerOnlyWithContent ==
    (pc = "done" /\ flushed = Len(written) /\ last.stage # "content_err") =>
        \A i \in 1..Len(Tree) : MarkersOf(Output, i) = FramesOf(Output, i)

====
